---- MODULE Spec2Model ----
(***************************************************************************)
(* Model of the search engine of src/search.py (Search.solve and its       *)
(* strategies BreadthFirstSearch, DepthFirstSearch, BestFirstSearch,       *)
(* GreedySearch, IterativeDepthFirstSearch) run on a graph problem in the  *)
(* style of src/problem.py (ShortestPathProblem), generalised to weighted  *)
(* edges and to a set of goal nodes.                                       *)
(***************************************************************************)
EXTENDS Integers, Sequences, FiniteSets, TLC

VARIABLES
    adjacency_matrix,   \* problem: [node -> [node -> cost or NoEdge]]
    node_start,         \* problem: index of the initial state
    goal,               \* problem: the set of nodes is_solution accepts
    heuristic,          \* engine: [node -> estimate], ZeroHeuristic by default
    alg,                \* which Search subclass the engine is
    timeout_arg,        \* solve(timeout=...), None or a number
    soft_timeout_arg,   \* solve(soft_timeout=...), None or a number
    pc,                 \* position of the solve call
    queue,              \* the frontier (deque, list, or heap of keys)
    seen,               \* the seen set: identities (hashes) of seen states
    value_states_dict,  \* BestFirstSearch.value_states_dict: key -> stack
    now,                \* last clock reading, relative to solve's start
    outcome,            \* "running", "returned" or "raised" (TimeoutError)
    returned,           \* the state solve returned (NoState is None)
    best_solution,      \* GreedySearch / IterativeDepthFirstSearch local
    best_value,         \* GreedySearch / IterativeDepthFirstSearch local
    current_state,      \* IterativeDepthFirstSearch.run local
    run_start,          \* IterativeDepthFirstSearch.run: its own start
    run_timeout,        \* IterativeDepthFirstSearch.run: its timeout
    popped,             \* history: the states pop returned, in order
    branched,           \* history: the states handed to branch, in order
    probes,             \* history: the (node, seen set) at which each probe
                        \* step of the current run branched
    found,              \* history: the solutions the runs of
                        \* IterativeDepthFirstSearch returned, in order
    late,               \* history: whether a clock reading exceeded the
                        \* timeout, and whether before any solution was found
    completed_calls,    \* solve calls this engine instance has completed
    first_result,       \* how the instance's first solve call ended
    contents,           \* history: (key, state) pairs pushed on the
                        \* BestFirstSearch frontier and not yet popped
    lhs,                \* ValueWrapper comparisons: the left operand
    rhs,                \* ValueWrapper comparisons: the right operand
    verdict             \* ValueWrapper comparisons: the results

vars == <<adjacency_matrix, node_start, goal, heuristic, alg, timeout_arg,
          soft_timeout_arg, pc, queue, seen, value_states_dict, now, outcome,
          returned, best_solution, best_value, current_state, run_start,
          run_timeout, popped, branched, probes, found, late,
          completed_calls, first_result, contents, lhs, rhs, verdict>>

\* What no step of a solve call changes.
outside == <<completed_calls, first_result, contents, lhs, rhs, verdict>>

problem == <<adjacency_matrix, node_start, goal, heuristic, alg, timeout_arg,
             soft_timeout_arg>>

-----------------------------------------------------------------------------
(* Bounds of the model.                                                    *)

BFSNodes == 4
BFSEdges == 4
NumNodes == 3
NumEdges == 4
MaxCost == 1
MaxH == 1
MaxTime == 3
MaxDepth == 4
MaxComponent == 2
MaxArity == 2
MaxPushes == 4
BestNodes == 4

(* float('inf'): larger than every number the model reaches.               *)
Inf == 1000

\* Python's None where a number or an index is expected.
None == 0 - 1

\* The adjacency matrix entry of a missing edge (ShortestPathProblem.actions
\* skips the entries that are not valid).
NoEdge == Inf

-----------------------------------------------------------------------------
(* problem.py: states, actions, the problem.                               *)

Nodes == DOMAIN adjacency_matrix

\* ShortestPathState(index, value, path); _action_history is the attribute
\* Search.branch patches onto a state (has_history: the attribute exists).
ShortestPathState(index, value, path) ==
    [index |-> index, value |-> value, path |-> path,
     has_history |-> FALSE, action_history |-> <<>>]

\* Python's None where a state is expected.
NoState == ShortestPathState(None, 0, <<>>)

\* State.__hash__ / State.__eq__: identity is the hash, here the index.
Hash(state) == state.index

\* ValueWrapper.__lt__ on scalars.
ValueLT(a, b) == a < b

\* Mutant of ValueGT: the operands not swapped (self < other).
ValueGTUnswapped(a, b) == ValueLT(a, b)

\* ValueWrapper.__gt__: other < self.
ValueGT(a, b) == ValueLT(b, a)

\* Problem.initial_state()
InitialState == ShortestPathState(node_start, 0, <<node_start>>)

\* Problem.is_solution(state)
IsSolution(state) == state.index \in goal

\* Problem.actions(state): one traversal per valid entry of the row, in
\* index order (enumerate).
RECURSIVE ActionsFrom(_, _)
ActionsFrom(index, other) ==
    IF other \notin Nodes THEN <<>>
    ELSE (IF adjacency_matrix[index][other] # NoEdge
          THEN <<[start |-> index, end |-> other,
                  cost |-> adjacency_matrix[index][other]]>>
          ELSE <<>>) \o ActionsFrom(index, other + 1)

Actions(state) == ActionsFrom(state.index, 0)

\* Mutant of Apply: the path extended by the wrong end of the traversal.
ApplyWrongEnd(action, state) ==
    ShortestPathState(action.end, state.value + action.cost,
                      Append(state.path, action.start))

\* Action.__call__(state): the successor state (weighted node traversal).
Apply(action, state) ==
    ShortestPathState(action.end, state.value + action.cost,
                      Append(state.path, action.end))

-----------------------------------------------------------------------------
(* problem.py: ValueWrapper, on scalars and on tuples.  A wrapped value is *)
(* modelled by its components and by whether it is a tuple.                *)

Scalar(x) == [is_tuple |-> FALSE, value |-> <<x>>]

Tuple(xs) == [is_tuple |-> TRUE, value |-> xs]

Min(x, y) == IF x <= y THEN x ELSE y

\* ValueWrapper.__lt__ on tuples: the loop over izip(self.value,
\* other.value), which stops at the shorter tuple.
RECURSIVE LtLoop(_, _, _, _)
LtLoop(a, b, i, any_lt) ==
    IF i > Min(Len(a), Len(b)) THEN any_lt
    ELSE IF a[i] > b[i] THEN FALSE
    ELSE LtLoop(a, b, i + 1, any_lt \/ a[i] < b[i])

\* Mutant of ValueWrapperLt: tuples compared in lexicographic order.
RECURSIVE LexLoop(_, _, _)
LexLoop(a, b, i) ==
    IF i > Min(Len(a), Len(b)) THEN Len(a) < Len(b)
    ELSE IF a[i] # b[i] THEN a[i] < b[i]
    ELSE LexLoop(a, b, i + 1)

ValueWrapperLtLexicographic(self, other) == LexLoop(self.value, other.value, 1)

\* ValueWrapper.__lt__(self, other), other a ValueWrapper of the same kind.
ValueWrapperLt(self, other) ==
    IF self.is_tuple /\ other.is_tuple
    THEN LtLoop(self.value, other.value, 1, FALSE)
    ELSE self.value[1] < other.value[1]

\* ValueWrapper.__gt__(self, other): `other < self`.
ValueWrapperGt(self, other) == ValueWrapperLt(other, self)

\* ValueWrapper.__le__(self, other): `not other > self`.
ValueWrapperLe(self, other) == ~ValueWrapperGt(other, self)

\* ValueWrapper.__ge__(self, other): `other <= self`.
ValueWrapperGe(self, other) == ValueWrapperLe(other, self)

\* ValueWrapper.__eq__(self, other): the wrapped values are equal.
ValueWrapperEq(self, other) == self.value = other.value

NoVerdict == [done |-> FALSE, lt |-> FALSE, gt |-> FALSE, le |-> FALSE,
              ge |-> FALSE, eq |-> FALSE]

\* lhs < rhs, lhs > rhs, lhs <= rhs, lhs >= rhs and lhs == rhs are evaluated.
Compare ==
    /\ ~verdict.done
    /\ pc = "values"
    /\ verdict' = [done |-> TRUE,
                   lt |-> ValueWrapperLt(lhs, rhs),
                   gt |-> ValueWrapperGt(lhs, rhs),
                   le |-> ValueWrapperLe(lhs, rhs),
                   ge |-> ValueWrapperGe(lhs, rhs),
                   eq |-> ValueWrapperEq(lhs, rhs)]
    /\ UNCHANGED <<problem, probes, pc, queue, seen, value_states_dict, now,
                   outcome, returned, best_solution, best_value, current_state,
                   run_start, run_timeout, popped, branched, found, late,
                   completed_calls, first_result, contents, lhs, rhs>>

\* How a solve call ended.
NoResult == [outcome |-> "running", returned |-> NoState]

-----------------------------------------------------------------------------
(* search.py: Search.                                                      *)

BaseAlgs == {"BreadthFirstSearch", "DepthFirstSearch", "BestFirstSearch"}

\* ZeroHeuristic.__call__
ZeroHeuristic == [n \in Nodes |-> 0]

\* `if not timeout: timeout = float('inf')`
EffectiveTimeout(arg) == IF arg = None \/ arg = 0 THEN Inf ELSE arg

\* create_queue() / create_seen_set(), with the engine's value_states_dict
EmptyFrontier(vsd) == [queue |-> <<>>, seen |-> {}, vsd |-> vsd]

\* Mutant of BranchOne: the history started anew at every state.
BranchOneFromScratch(state, action) ==
    [Apply(action, state) EXCEPT
        !.has_history = TRUE,
        !.action_history = <<action>>]

\* Search.branch: apply every action, record the action history.
BranchOne(state, action) ==
    [Apply(action, state) EXCEPT
        !.has_history = TRUE,
        !.action_history = IF state.has_history
                           THEN Append(state.action_history, action)
                           ELSE <<action>>]

\* Mutant of Branch: only the first action is applied.
BranchFirstOnly(state) ==
    LET actions == Actions(state)
    IN  [i \in 1..(IF Len(actions) > 0 THEN 1 ELSE 0) |->
            BranchOne(state, actions[i])]

Branch(state) ==
    LET actions == Actions(state)
    IN  [i \in 1..Len(actions) |-> BranchOne(state, actions[i])]

\* heapq.heappush on a heap of keys: the heap is kept as the ascending
\* sequence of its keys (only its minimum and its length are observed).
RECURSIVE HeapPush(_, _)
HeapPush(heap, f) ==
    IF heap = <<>> THEN <<f>>
    ELSE IF f <= Head(heap) THEN <<f>> \o heap
    ELSE <<Head(heap)>> \o HeapPush(Tail(heap), f)

\* BestFirstSearch.push with an explicit key f.
BestPush(fr, state, f) ==
    IF f \in DOMAIN fr.vsd
    THEN [fr EXCEPT !.vsd = [fr.vsd EXCEPT ![f] = Append(@, state)]]
    ELSE [fr EXCEPT !.vsd = fr.vsd @@ (f :> <<state>>),
                    !.queue = HeapPush(fr.queue, f)]

\* Mutant of BestPop: the oldest state of the stack is taken.
BestPopOldest(fr) ==
    LET value == fr.queue[1]
        stack == fr.vsd[value]
        element == stack[1]
    IN  [value |-> value, state |-> element,
         fr |-> IF Len(stack) = 1
                THEN [fr EXCEPT !.queue = Tail(fr.queue),
                                !.vsd = [k \in DOMAIN fr.vsd \ {value} |-> fr.vsd[k]]]
                ELSE [fr EXCEPT !.vsd = [fr.vsd EXCEPT ![value] = Tail(stack)]]]

\* BestFirstSearch.pop / IterativeDepthFirstSearch.pop: (value, element, frontier)
BestPop(fr) ==
    LET value == fr.queue[1]
        stack == fr.vsd[value]
        element == stack[Len(stack)]
    IN  [value |-> value, state |-> element,
         fr |-> IF Len(stack) = 1
                THEN [fr EXCEPT !.queue = Tail(fr.queue),
                                !.vsd = [k \in DOMAIN fr.vsd \ {value} |-> fr.vsd[k]]]
                ELSE [fr EXCEPT !.vsd = [fr.vsd EXCEPT
                                    ![value] = SubSeq(stack, 1, Len(stack) - 1)]]]

\* GreedySearch.push: keep the state only if the queue is empty or its
\* single state has a greater value.
GreedyPush(fr, state) ==
    IF fr.queue = <<>> \/ ValueGT(fr.queue[1].value, state.value)
    THEN [fr EXCEPT !.queue = <<state>>]
    ELSE fr

\* push(queue, state) of each strategy.
Push(a, h, fr, state) ==
    CASE a \in {"BreadthFirstSearch", "DepthFirstSearch"} ->
            [fr EXCEPT !.queue = Append(fr.queue, state)]
      [] a = "GreedySearch" -> GreedyPush(fr, state)
      [] OTHER -> BestPush(fr, state, state.value + h[state.index])

\* Mutant of Pop: the deque of BreadthFirstSearch popped at its right end.
PopRightEnd(a, fr) ==
    CASE a \in {"BreadthFirstSearch", "DepthFirstSearch", "GreedySearch"} ->
            [state |-> fr.queue[Len(fr.queue)],
             fr |-> [fr EXCEPT !.queue = SubSeq(fr.queue, 1, Len(fr.queue) - 1)]]
      [] OTHER -> LET p == BestPop(fr) IN [state |-> p.state, fr |-> p.fr]

\* pop(queue) of each strategy: the state and the frontier left.
Pop(a, fr) ==
    CASE a = "BreadthFirstSearch" ->
            [state |-> Head(fr.queue), fr |-> [fr EXCEPT !.queue = Tail(fr.queue)]]
      [] a \in {"DepthFirstSearch", "GreedySearch"} ->
            [state |-> fr.queue[Len(fr.queue)],
             fr |-> [fr EXCEPT !.queue = SubSeq(fr.queue, 1, Len(fr.queue) - 1)]]
      [] OTHER -> LET p == BestPop(fr) IN [state |-> p.state, fr |-> p.fr]

\* Search.is_new
IsNew(state, seenset) == Hash(state) \notin seenset

\* Search.add_to_seen
AddToSeen(state, seenset) == seenset \cup {Hash(state)}

\* Mutant of PushIfNew: the state is pushed whether seen or not.
PushAlways(a, h, fr, state) ==
    LET pushed == Push(a, h, fr, state)
    IN  [pushed EXCEPT !.seen = AddToSeen(state, pushed.seen)]

\* Search.push_if_new
PushIfNew(a, h, fr, state) ==
    IF IsNew(state, fr.seen)
    THEN LET pushed == Push(a, h, fr, state)
         IN  [pushed EXCEPT !.seen = AddToSeen(state, pushed.seen)]
    ELSE fr

\* `for branched_state in branched_states: self.push_if_new(...)`
RECURSIVE PushAllIfNew(_, _, _, _)
PushAllIfNew(a, h, fr, states) ==
    IF states = <<>> THEN fr
    ELSE PushAllIfNew(a, h, PushIfNew(a, h, fr, Head(states)), Tail(states))

\* Mutant of SolveIteration: the popped state is branched without the goal
\* test.
SolveIterationNoGoalTest(a, h, fr) ==
    LET p == Pop(a, fr)
    IN  [done |-> FALSE, state |-> p.state,
         fr |-> PushAllIfNew(a, h, p.fr, Branch(p.state))]

\* One iteration of Search.solve's loop once the timeout check has passed:
\* pop, goal test, branch and push.
SolveIteration(a, h, fr) ==
    LET p == Pop(a, fr)
    IN  IF IsSolution(p.state)
        THEN [done |-> TRUE, state |-> p.state, fr |-> p.fr]
        ELSE [done |-> FALSE, state |-> p.state,
              fr |-> PushAllIfNew(a, h, p.fr, Branch(p.state))]

\* Search.solve with no timeout, run to its end: the state it returns.
RECURSIVE SolveLoop(_, _, _)
SolveLoop(a, h, fr) ==
    IF Len(fr.queue) = 0 THEN NoState
    ELSE LET it == SolveIteration(a, h, fr)
         IN  IF it.done THEN it.state ELSE SolveLoop(a, h, it.fr)

SearchSolve(a, h) ==
    SolveLoop(a, h, PushIfNew(a, h, EmptyFrontier(<<>>), InitialState))

-----------------------------------------------------------------------------
(* The clock.  time.time() never goes back; a reading is any value from    *)
(* the last one up to MaxTime.  When solve is given no timeout at all no   *)
(* branch of the code depends on the clock, and one reading stands for all.*)

ReadsFrom(last) ==
    IF timeout_arg = None /\ soft_timeout_arg = None
    THEN {last}
    ELSE last..MaxTime

ClockReads == ReadsFrom(now)

Frontier == [queue |-> queue, seen |-> seen, vsd |-> value_states_dict]

SetFrontier(fr) ==
    /\ queue' = fr.queue
    /\ seen' = fr.seen
    /\ value_states_dict' = fr.vsd

Return(state) ==
    /\ pc' = "done"
    /\ outcome' = "returned"
    /\ returned' = state

Raise ==
    /\ pc' = "done"
    /\ outcome' = "raised"
    /\ returned' = NoState

-----------------------------------------------------------------------------
(* BestFirstSearch.push and BestFirstSearch.pop called on one frontier, in *)
(* any order, as the calls of one solve invocation are.                    *)

\* The state is in the frontier (contents holds the pairs in push order).
Held(state) == \E i \in 1..Len(contents) : contents[i].state = state

\* push(queue, state) for a state not in the frontier.
FrontierPush ==
    /\ pc = "frontier"
    /\ Len(contents) + Len(popped) < MaxPushes
    /\ \E index \in Nodes, value \in 0..MaxCost :
          LET state == ShortestPathState(index, value, <<index>>)
          IN  /\ ~Held(state)
              /\ SetFrontier(Push(alg, heuristic, Frontier, state))
              /\ contents' = Append(contents,
                                    [key |-> value + heuristic[index],
                                     state |-> state])
    /\ UNCHANGED <<problem, probes, pc, now, outcome, returned, best_solution,
                   best_value, current_state, run_start, run_timeout, popped,
                   branched, found, late, completed_calls, first_result, lhs,
                   rhs, verdict>>

\* pop(queue) on a non-empty queue.
FrontierPop ==
    /\ pc = "frontier"
    /\ Len(queue) > 0
    /\ LET p == Pop(alg, Frontier)
       IN  /\ SetFrontier(p.fr)
           /\ popped' = Append(popped, p.state)
           /\ LET Others(entry) == entry.state # p.state
              IN  contents' = SelectSeq(contents, Others)
    /\ UNCHANGED <<problem, probes, pc, now, outcome, returned, best_solution,
                   best_value, current_state, run_start, run_timeout, branched,
                   found, late, completed_calls, first_result, lhs, rhs,
                   verdict>>

-----------------------------------------------------------------------------
(* Search.solve, shared by BreadthFirstSearch, DepthFirstSearch and        *)
(* BestFirstSearch.                                                        *)

\* solve up to the loop: start the clock, create queue and seen set, push
\* the initial state.
SolveStart ==
    /\ pc = "new"
    /\ alg \in BaseAlgs
    /\ SetFrontier(PushIfNew(alg, heuristic,
                             EmptyFrontier(value_states_dict), InitialState))
    /\ pc' = "loop"
    /\ now' = 0
    /\ UNCHANGED <<problem, outside, probes, found, outcome, returned,
                   best_solution, best_value, current_state, run_start,
                   run_timeout, popped, branched, late>>

\* Mutant of SolveTimeout: the loop is left and None returned.
SolveTimeoutReturnsNone ==
    /\ pc = "loop"
    /\ alg \in BaseAlgs
    /\ Len(queue) > 0
    /\ \E current \in ClockReads :
          /\ current > EffectiveTimeout(timeout_arg)
          /\ now' = current
    /\ Return(NoState)
    /\ late' = "before_solution"
    /\ UNCHANGED <<problem, outside, probes, found, queue, seen,
                   value_states_dict, best_solution, best_value, current_state,
                   run_start, run_timeout, popped, branched>>

\* An iteration whose timeout check fails: raise TimeoutError.
SolveTimeout ==
    /\ pc = "loop"
    /\ alg \in BaseAlgs
    /\ Len(queue) > 0
    /\ \E current \in ClockReads :
          /\ current > EffectiveTimeout(timeout_arg)
          /\ now' = current
    /\ Raise
    /\ late' = "before_solution"
    /\ UNCHANGED <<problem, outside, probes, found, queue, seen,
                   value_states_dict, best_solution, best_value, current_state,
                   run_start, run_timeout, popped, branched>>

\* An iteration that pops a solution: return it.
SolveGoal ==
    /\ pc = "loop"
    /\ alg \in BaseAlgs
    /\ Len(queue) > 0
    /\ \E current \in ClockReads :
          /\ ~(current > EffectiveTimeout(timeout_arg))
          /\ now' = current
    /\ LET it == SolveIteration(alg, heuristic, Frontier)
       IN  /\ it.done
           /\ SetFrontier(it.fr)
           /\ popped' = Append(popped, it.state)
           /\ Return(it.state)
    /\ UNCHANGED <<problem, outside, probes, found, best_solution, best_value,
                   current_state, run_start, run_timeout, branched, late>>

\* An iteration that pops a state that is no solution: branch it.
SolveBranch ==
    /\ pc = "loop"
    /\ alg \in BaseAlgs
    /\ Len(queue) > 0
    /\ \E current \in ClockReads :
          /\ ~(current > EffectiveTimeout(timeout_arg))
          /\ now' = current
    /\ LET it == SolveIteration(alg, heuristic, Frontier)
       IN  /\ ~it.done
           /\ SetFrontier(it.fr)
           /\ popped' = Append(popped, it.state)
           /\ branched' = Append(branched, it.state)
    /\ UNCHANGED <<problem, outside, probes, found, pc, outcome, returned,
                   best_solution, best_value, current_state, run_start,
                   run_timeout, late>>

\* The loop ends with an empty queue: return None.
SolveExhausted ==
    /\ pc = "loop"
    /\ alg \in BaseAlgs
    /\ Len(queue) = 0
    /\ Return(NoState)
    /\ UNCHANGED <<problem, outside, probes, found, queue, seen,
                   value_states_dict, now, best_solution, best_value,
                   current_state, run_start, run_timeout, popped, branched,
                   late>>

-----------------------------------------------------------------------------
(* GreedySearch.solve.                                                     *)

\* A ValueWrapper held in best_value (a float before the first one).
Wrapped(value) == [wrapped |-> TRUE, value |-> value]

\* solve up to the loop: the initial state is pushed and is the best so far.
GreedyStart ==
    /\ pc = "new"
    /\ alg = "GreedySearch"
    /\ SetFrontier(PushIfNew(alg, heuristic,
                             EmptyFrontier(value_states_dict), InitialState))
    /\ best_solution' = InitialState
    /\ best_value' = Wrapped(InitialState.value)
    /\ pc' = "loop"
    /\ now' = 0
    /\ UNCHANGED <<problem, outside, probes, found, outcome, returned,
                   current_state, run_start, run_timeout, popped, branched,
                   late>>

\* An iteration whose timeout check fails: break, return best_solution.
GreedyTimeout ==
    /\ pc = "loop"
    /\ alg = "GreedySearch"
    /\ Len(queue) > 0
    /\ \E current \in ClockReads :
          /\ current > EffectiveTimeout(timeout_arg)
          /\ now' = current
    /\ Return(best_solution)
    /\ late' = "after_solution"
    /\ UNCHANGED <<problem, outside, probes, found, queue, seen,
                   value_states_dict, best_solution, best_value, current_state,
                   run_start, run_timeout, popped, branched>>

\* An iteration that pops a state worse than the best: break, return
\* best_solution.
GreedyWorse ==
    /\ pc = "loop"
    /\ alg = "GreedySearch"
    /\ Len(queue) > 0
    /\ \E current \in ClockReads :
          /\ ~(current > EffectiveTimeout(timeout_arg))
          /\ now' = current
    /\ LET p == Pop(alg, Frontier)
       IN  /\ ValueGT(p.state.value, best_value.value)
           /\ SetFrontier(p.fr)
           /\ popped' = Append(popped, p.state)
    /\ Return(best_solution)
    /\ UNCHANGED <<problem, outside, probes, found, best_solution, best_value,
                   current_state, run_start, run_timeout, branched, late>>

\* An iteration that pops a state not worse than the best: it becomes the
\* best and is branched.
GreedyBranch ==
    /\ pc = "loop"
    /\ alg = "GreedySearch"
    /\ Len(queue) > 0
    /\ \E current \in ClockReads :
          /\ ~(current > EffectiveTimeout(timeout_arg))
          /\ now' = current
    /\ LET p == Pop(alg, Frontier)
       IN  /\ ~ValueGT(p.state.value, best_value.value)
           /\ best_solution' = p.state
           /\ best_value' = Wrapped(p.state.value)
           /\ SetFrontier(PushAllIfNew(alg, heuristic, p.fr, Branch(p.state)))
           /\ popped' = Append(popped, p.state)
           /\ branched' = Append(branched, p.state)
    /\ UNCHANGED <<problem, outside, probes, found, pc, outcome, returned,
                   current_state, run_start, run_timeout, late>>

\* The loop ends with an empty queue: return best_solution.
GreedyExhausted ==
    /\ pc = "loop"
    /\ alg = "GreedySearch"
    /\ Len(queue) = 0
    /\ Return(best_solution)
    /\ UNCHANGED <<problem, outside, probes, found, queue, seen,
                   value_states_dict, now, best_solution, best_value,
                   current_state, run_start, run_timeout, popped, branched,
                   late>>

-----------------------------------------------------------------------------
(* IterativeDepthFirstSearch.solve and IterativeDepthFirstSearch.run.      *)

\* `if not soft_timeout: soft_timeout = min(timeout, float('inf'))`
EffectiveSoftTimeout ==
    IF soft_timeout_arg = None \/ soft_timeout_arg = 0
    THEN EffectiveTimeout(timeout_arg)
    ELSE soft_timeout_arg

\* `value >= best_value`, value a plain number (the heap key) and best_value
\* float('inf') or, after the first solution, a ValueWrapper: the comparison
\* is then answered by ValueWrapper.__le__(best_value, value), which is False
\* for an operand that is no ValueWrapper.
KeyGE(value, bv) == IF bv.wrapped THEN FALSE ELSE value >= bv.value

\* Mutant of WrappedLT: the operands swapped (best_value < new_value).
WrappedLTSwapped(new_value, bv) ==
    IF bv.wrapped THEN ValueLT(bv.value, new_value) ELSE FALSE

\* `new_value < best_value`, new_value a ValueWrapper: ValueWrapper.__lt__
\* is False for an operand that is no ValueWrapper (the initial float).
WrappedLT(new_value, bv) == IF bv.wrapped THEN ValueLT(new_value, bv.value) ELSE FALSE

\* `timeout - ellapsed_time` as run receives it: `if not timeout: inf`.
RunTimeoutFor(ellapsed_time) ==
    LET timeout == EffectiveTimeout(timeout_arg)
        remaining_time == IF timeout = Inf THEN Inf ELSE timeout - ellapsed_time
    IN  IF remaining_time = 0 THEN Inf ELSE remaining_time

\* The history of late clock readings after a reading of current.
LateAfter(current) ==
    IF ~(current > EffectiveTimeout(timeout_arg)) THEN late
    ELSE IF best_solution = NoState THEN "before_solution"
    ELSE IF late = "never" THEN "after_solution"
    ELSE late

\* run: the branched states that are new, then without repeated siblings.
RECURSIVE Siblings(_, _)
Siblings(states, new_seen) ==
    IF states = <<>> THEN <<>>
    ELSE IF new_seen = {} \/ IsNew(Head(states), new_seen)
    THEN <<Head(states)>> \o Siblings(Tail(states), AddToSeen(Head(states), new_seen))
    ELSE Siblings(Tail(states), new_seen)

Reverse(states) == [i \in 1..Len(states) |-> states[Len(states) + 1 - i]]

\* run: new_states of one probe step, reversed.
NewStates(state, seenset) ==
    LET New(x) == IsNew(x, seenset)
    IN  Reverse(Siblings(SelectSeq(Branch(state), New), {}))

\* run: `for value, state in values_with_states[1:]`: push with the key, mark
\* seen.
RECURSIVE StoreRest(_, _, _)
StoreRest(h, fr, states) ==
    IF states = <<>> THEN fr
    ELSE LET state == Head(states)
             pushed == BestPush(fr, state, state.value + h[state.index])
         IN  StoreRest(h, [pushed EXCEPT !.seen = AddToSeen(state, pushed.seen)],
                       Tail(states))

\* solve up to the loop.
IdfsStart ==
    /\ pc = "new"
    /\ alg = "IterativeDepthFirstSearch"
    /\ SetFrontier(PushIfNew(alg, heuristic,
                             EmptyFrontier(value_states_dict), InitialState))
    /\ best_solution' = NoState
    /\ best_value' = [wrapped |-> FALSE, value |-> Inf]
    /\ pc' = "loop"
    /\ now' = 0
    /\ UNCHANGED <<problem, outside, probes, found, outcome, returned,
                   current_state, run_start, run_timeout, popped, branched,
                   late>>

\* Mutant of IdfsBreak: the soft timeout leaves the loop whether or not a
\* solution exists.
IdfsBreakUnsolved ==
    /\ pc = "loop"
    /\ alg = "IterativeDepthFirstSearch"
    /\ Len(queue) > 0
    /\ LET p == BestPop(Frontier)
       IN  /\ \E current \in ClockReads :
                 /\ \/ KeyGE(p.value, best_value)
                    \/ current > EffectiveSoftTimeout
                 /\ now' = IF KeyGE(p.value, best_value) THEN now ELSE current
                 /\ late' = IF KeyGE(p.value, best_value) THEN late
                            ELSE LateAfter(current)
           /\ SetFrontier(p.fr)
           /\ popped' = Append(popped, p.state)
    /\ Return(best_solution)
    /\ UNCHANGED <<problem, outside, probes, found, best_solution, best_value,
                   current_state, run_start, run_timeout, branched>>

\* An outer iteration that leaves the loop: the popped key is not below
\* best_value (before the clock is read), or a solution exists and the soft
\* timeout is exceeded.  solve returns best_solution.
IdfsBreak ==
    /\ pc = "loop"
    /\ alg = "IterativeDepthFirstSearch"
    /\ Len(queue) > 0
    /\ LET p == BestPop(Frontier)
       IN  /\ \E current \in ClockReads :
                 /\ \/ KeyGE(p.value, best_value)
                    \/ best_solution # NoState /\ current > EffectiveSoftTimeout
                 /\ now' = IF KeyGE(p.value, best_value) THEN now ELSE current
                 /\ late' = IF KeyGE(p.value, best_value) THEN late
                            ELSE LateAfter(current)
           /\ SetFrontier(p.fr)
           /\ popped' = Append(popped, p.state)
    /\ Return(best_solution)
    /\ UNCHANGED <<problem, outside, probes, found, best_solution, best_value,
                   current_state, run_start, run_timeout, branched>>

\* An outer iteration that finds the hard timeout exceeded: TimeoutError.
IdfsTimeout ==
    /\ pc = "loop"
    /\ alg = "IterativeDepthFirstSearch"
    /\ Len(queue) > 0
    /\ LET p == BestPop(Frontier)
       IN  /\ ~KeyGE(p.value, best_value)
           /\ \E current \in ClockReads :
                 /\ ~(best_solution # NoState /\ current > EffectiveSoftTimeout)
                 /\ current > EffectiveTimeout(timeout_arg)
                 /\ now' = current
                 /\ late' = LateAfter(current)
           /\ SetFrontier(p.fr)
           /\ popped' = Append(popped, p.state)
    /\ Raise
    /\ UNCHANGED <<problem, outside, probes, found, best_solution, best_value,
                   current_state, run_start, run_timeout, branched>>

\* An outer iteration that starts a run from the popped state; run reads
\* the clock for its own start.
IdfsRun ==
    /\ pc = "loop"
    /\ alg = "IterativeDepthFirstSearch"
    /\ Len(queue) > 0
    /\ LET p == BestPop(Frontier)
       IN  /\ ~KeyGE(p.value, best_value)
           /\ \E current \in ClockReads :
                 /\ ~(best_solution # NoState /\ current > EffectiveSoftTimeout)
                 /\ ~(current > EffectiveTimeout(timeout_arg))
                 /\ run_timeout' = RunTimeoutFor(current)
                 /\ \E start \in ReadsFrom(current) :
                       /\ run_start' = start
                       /\ now' = start
                       /\ late' = LateAfter(start)
           /\ SetFrontier(p.fr)
           /\ popped' = Append(popped, p.state)
           /\ current_state' = p.state
    /\ pc' = "run"
    /\ probes' = <<>>
    /\ UNCHANGED <<problem, outside, found, outcome, returned, best_solution,
                   best_value, branched>>

\* A probe step that finds the run's timeout exceeded: run returns None and
\* solve goes on with its loop.
RunTimeout ==
    /\ pc = "run"
    /\ \E current \in ClockReads :
          /\ current - run_start > run_timeout
          /\ now' = current
          /\ late' = LateAfter(current)
    /\ pc' = "loop"
    /\ UNCHANGED <<problem, outside, probes, found, queue, seen,
                   value_states_dict, outcome, returned, best_solution,
                   best_value, current_state, run_start, run_timeout, popped,
                   branched>>

\* A probe step at a solution: run returns it, solve keeps it when it is
\* better than best_value or the first one.
RunGoal ==
    /\ pc = "run"
    /\ \E current \in ClockReads :
          /\ ~(current - run_start > run_timeout)
          /\ now' = current
          /\ late' = LateAfter(current)
    /\ IsSolution(current_state)
    /\ found' = Append(found, current_state)
    /\ IF WrappedLT(current_state.value, best_value) \/ best_solution = NoState
       THEN /\ best_solution' = current_state
            /\ best_value' = Wrapped(current_state.value)
       ELSE UNCHANGED <<best_solution, best_value>>
    /\ pc' = "loop"
    /\ UNCHANGED <<problem, outside, probes, queue, seen, value_states_dict,
                   outcome, returned, current_state, run_start, run_timeout,
                   popped, branched>>

\* A probe step that continues: the run goes on through the first of the
\* reversed new states, the rest is stored in the queue and marked seen.
RunDescend ==
    /\ pc = "run"
    /\ Len(current_state.path) <= MaxDepth
    /\ \E current \in ClockReads :
          /\ ~(current - run_start > run_timeout)
          /\ now' = current
          /\ late' = LateAfter(current)
    /\ ~IsSolution(current_state)
    /\ LET new_states == NewStates(current_state, seen)
       IN  /\ new_states # <<>>
           /\ current_state' = new_states[1]
           /\ SetFrontier(StoreRest(heuristic, Frontier, Tail(new_states)))
    /\ branched' = Append(branched, current_state)
    /\ probes' = Append(probes, [index |-> current_state.index,
                                  seen |-> seen])
    /\ UNCHANGED <<problem, outside, found, pc, outcome, returned,
                   best_solution, best_value, run_start, run_timeout, popped>>

\* A probe step with no new state: run returns None and solve goes on with
\* its loop.
RunDeadEnd ==
    /\ pc = "run"
    /\ \E current \in ClockReads :
          /\ ~(current - run_start > run_timeout)
          /\ now' = current
          /\ late' = LateAfter(current)
    /\ ~IsSolution(current_state)
    /\ NewStates(current_state, seen) = <<>>
    /\ branched' = Append(branched, current_state)
    /\ pc' = "loop"
    /\ UNCHANGED <<problem, outside, probes, found, queue, seen,
                   value_states_dict, outcome, returned, best_solution,
                   best_value, current_state, run_start, run_timeout, popped>>

\* The loop ends with an empty queue: return best_solution.
IdfsExhausted ==
    /\ pc = "loop"
    /\ alg = "IterativeDepthFirstSearch"
    /\ Len(queue) = 0
    /\ Return(best_solution)
    /\ UNCHANGED <<problem, outside, probes, found, queue, seen,
                   value_states_dict, now, best_solution, best_value,
                   current_state, run_start, run_timeout, popped, branched,
                   late>>

-----------------------------------------------------------------------------
(* A second solve call on the same engine instance, with the same problem  *)
(* and arguments.                                                          *)

\* The first call has ended; solve is called again.  Its locals are new;
\* self.value_states_dict is an attribute of the instance, set in __init__
\* only, and is what the first call left.
SolveAgain ==
    /\ pc = "done"
    /\ completed_calls = 0
    /\ completed_calls' = 1
    /\ first_result' = [outcome |-> outcome, returned |-> returned]
    /\ pc' = "new"
    /\ queue' = <<>>
    /\ seen' = {}
    /\ now' = 0
    /\ outcome' = "running"
    /\ returned' = NoState
    /\ best_solution' = NoState
    /\ best_value' = [wrapped |-> FALSE, value |-> Inf]
    /\ current_state' = NoState
    /\ run_start' = 0
    /\ run_timeout' = Inf
    /\ popped' = <<>>
    /\ branched' = <<>>
    /\ probes' = <<>>
    /\ found' = <<>>
    /\ late' = "never"
    /\ UNCHANGED <<problem, value_states_dict, contents, lhs, rhs, verdict>>

-----------------------------------------------------------------------------
(* Reference definitions the claims are stated against.                    *)

\* The nodes reachable from the initial state by at most k actions.
RECURSIVE Within(_)
Within(k) ==
    IF k = 0 THEN {node_start}
    ELSE LET prev == Within(k - 1)
         IN  prev \cup {n \in Nodes :
                            \E m \in prev : adjacency_matrix[m][n] # NoEdge}

\* The least accumulated cost of reaching a goal from node n by at most k
\* actions (Inf when there is none).
RECURSIVE CostWithin(_, _)
CostWithin(n, k) ==
    IF n \in goal THEN 0
    ELSE IF k = 0 THEN Inf
    ELSE LET via == {adjacency_matrix[n][m] + CostWithin(m, k - 1) :
                        m \in {x \in Nodes : /\ adjacency_matrix[n][x] # NoEdge
                                              /\ CostWithin(x, k - 1) < Inf}}
         IN  IF via = {} THEN Inf
             ELSE CHOOSE c \in via : \A d \in via : c <= d

\* The true remaining cost from node n to a goal (costs not negative).
RemainingCost(n) == CostWithin(n, Cardinality(Nodes))

\* A heuristic is admissible when it never exceeds the true remaining cost.
Admissible(h) == \A n \in Nodes : h[n] <= RemainingCost(n)

\* The sum of f over the set S.
RECURSIVE Sum(_, _)
Sum(f, S) ==
    IF S = {} THEN 0
    ELSE LET x == CHOOSE y \in S : TRUE IN f[x] + Sum(f, S \ {x})

\* The number of paths of exactly k actions from the initial state to node n.
RECURSIVE PathsTo(_, _)
PathsTo(n, k) ==
    IF k = 0 THEN (IF n = node_start THEN 1 ELSE 0)
    ELSE LET preds == {m \in Nodes : adjacency_matrix[m][n] # NoEdge}
         IN  Sum([m \in preds |-> PathsTo(m, k - 1)], preds)

\* Exactly one path leads from the initial state to a goal (a cycle on the
\* way would add a second one of at most twice as many actions as nodes).
UniquePath ==
    LET lens == 0..(2 * Cardinality(Nodes))
        count == [g \in goal |-> Sum([k \in lens |-> PathsTo(g, k)], lens)]
    IN  Sum(count, goal) = 1

\* path is a path of the graph from the initial state to a goal.
IsGoalPath(path) ==
    /\ Len(path) >= 1
    /\ path[1] = node_start
    /\ path[Len(path)] \in goal
    /\ \A i \in 1..(Len(path) - 1) :
          adjacency_matrix[path[i]][path[i + 1]] # NoEdge

GoalReachable == Within(Cardinality(Nodes)) \cap goal # {}

\* The length of a shortest path from the initial state to any goal.
ShortestGoalLen ==
    CHOOSE k \in 0..Cardinality(Nodes) :
        /\ Within(k) \cap goal # {}
        /\ \A j \in 0..(k - 1) : Within(j) \cap goal = {}

\* The number of actions from the initial state recorded on a state.
PathLen(state) == IF state.has_history THEN Len(state.action_history) ELSE 0

-----------------------------------------------------------------------------
(* Problems and engines.                                                   *)

\* The ordered pairs of distinct nodes of 0..n-1 (no self-loops).
Pairs(n) == {p \in (0..n-1) \X (0..n-1) : p[1] # p[2]}

\* The adjacency matrix with the edges of the weight function w.
Matrix(n, w) ==
    [i \in 0..n-1 |-> [j \in 0..n-1 |->
        IF <<i, j>> \in DOMAIN w THEN w[<<i, j>>] ELSE NoEdge]]

\* Every weighted digraph on 0..n-1 with at most e edges, the costs in costs.
Graphs(n, e, costs) ==
    UNION {{Matrix(n, w) : w \in [edges -> costs]} :
            edges \in {es \in SUBSET Pairs(n) : Cardinality(es) <= e}}

\* The state of a newly constructed engine, before solve is called.
Constructed ==
    /\ pc = "new"
    /\ queue = <<>>
    /\ seen = {}
    /\ value_states_dict = <<>>
    /\ now = 0
    /\ outcome = "running"
    /\ returned = NoState
    /\ best_solution = NoState
    /\ best_value = [wrapped |-> FALSE, value |-> Inf]
    /\ current_state = NoState
    /\ run_start = 0
    /\ run_timeout = Inf
    /\ popped = <<>>
    /\ branched = <<>>
    /\ probes = <<>>
    /\ found = <<>>
    /\ late = "never"
    /\ completed_calls = 0
    /\ first_result = NoResult
    /\ contents = <<>>
    /\ lhs = Scalar(0)
    /\ rhs = Scalar(0)
    /\ verdict = NoVerdict

\* BreadthFirstSearch on unit-cost graphs, no timeout.
InitBFS ==
    /\ adjacency_matrix \in Graphs(BFSNodes, BFSEdges, {1})
    /\ node_start = 0
    /\ goal \in SUBSET (0..BFSNodes-1)
    /\ heuristic = [n \in 0..BFSNodes-1 |-> 0]
    /\ alg = "BreadthFirstSearch"
    /\ timeout_arg = None
    /\ soft_timeout_arg = None
    /\ Constructed

\* Any of the four strategies that run one loop, on graphs whose costs may
\* be negative, zero or positive; BestFirstSearch with any heuristic; no
\* timeout.
InitSearch ==
    /\ adjacency_matrix \in Graphs(NumNodes, NumEdges, (0 - 1)..MaxCost)
    /\ node_start = 0
    /\ goal \in SUBSET (0..NumNodes-1)
    /\ alg \in BaseAlgs \cup {"GreedySearch"}
    /\ heuristic \in IF alg = "BestFirstSearch"
                     THEN [0..NumNodes-1 -> 0..MaxH]
                     ELSE {[n \in 0..NumNodes-1 |-> 0]}
    /\ timeout_arg = None
    /\ soft_timeout_arg = None
    /\ Constructed

\* Every weighted acyclic digraph on 0..n-1 (edges from lower to higher
\* index), the costs in costs.
Dags(n, costs) ==
    UNION {{Matrix(n, w) : w \in [edges -> costs]} :
            edges \in SUBSET {p \in Pairs(n) : p[1] < p[2]}}

\* BestFirstSearch with an admissible heuristic (the zero heuristic among
\* them) on graphs with non-negative costs, no timeout.
InitBest ==
    /\ adjacency_matrix \in Dags(BestNodes, 0..MaxCost)
    /\ node_start = 0
    /\ goal \in SUBSET (0..BestNodes-1)
    /\ alg = "BestFirstSearch"
    /\ heuristic \in {h \in [0..BestNodes-1 -> 0..MaxH] : Admissible(h)}
    /\ timeout_arg = None
    /\ soft_timeout_arg = None
    /\ Constructed

\* ShortestPathProblem instances (unit costs, one end node) in which exactly
\* one path leads from the start to the end, solved by BreadthFirstSearch,
\* GreedySearch or BestFirstSearch with the zero heuristic; no timeout.
InitUnique ==
    /\ adjacency_matrix \in Graphs(NumNodes, NumEdges, {1})
    /\ node_start = 0
    /\ goal \in {{n} : n \in 0..NumNodes-1}
    /\ UniquePath
    /\ alg \in {"BreadthFirstSearch", "GreedySearch", "BestFirstSearch"}
    /\ heuristic = [n \in 0..NumNodes-1 |-> 0]
    /\ timeout_arg = None
    /\ soft_timeout_arg = None
    /\ Constructed

\* The four strategies that run one loop, called with a timeout (None, zero
\* or positive), the clock advancing between the iterations.
InitTimed ==
    /\ adjacency_matrix \in Graphs(NumNodes, NumEdges, {0 - 1, 1})
    /\ node_start = 0
    /\ goal \in SUBSET (0..NumNodes-1)
    /\ alg \in BaseAlgs \cup {"GreedySearch"}
    /\ heuristic = [n \in 0..NumNodes-1 |-> 0]
    /\ timeout_arg \in {None} \cup 0..(MaxTime - 1)
    /\ soft_timeout_arg = None
    /\ Constructed

\* IterativeDepthFirstSearch on unit-cost graphs, called with any timeout
\* and soft timeout (None, zero or positive), the clock advancing between
\* the steps.
InitIdfs ==
    /\ adjacency_matrix \in Graphs(NumNodes, NumEdges, {1})
    /\ node_start = 0
    /\ goal \in SUBSET (0..NumNodes-1)
    /\ alg = "IterativeDepthFirstSearch"
    /\ heuristic = [n \in 0..NumNodes-1 |-> 0]
    /\ timeout_arg \in {None} \cup 0..(MaxTime - 1)
    /\ soft_timeout_arg \in {None} \cup 0..(MaxTime - 1)
    /\ Constructed

\* BreadthFirstSearch and DepthFirstSearch on every unit-cost graph (cycles
\* included), any goal set, no timeout.
InitUninformed ==
    /\ adjacency_matrix \in Graphs(NumNodes, NumEdges, {1})
    /\ node_start = 0
    /\ goal \in SUBSET (0..NumNodes-1)
    /\ alg \in {"BreadthFirstSearch", "DepthFirstSearch"}
    /\ heuristic = [n \in 0..NumNodes-1 |-> 0]
    /\ timeout_arg = None
    /\ soft_timeout_arg = None
    /\ Constructed

\* IterativeDepthFirstSearch with an admissible heuristic (the zero heuristic
\* among them) on acyclic graphs with non-negative costs, no timeout and no
\* soft timeout.
InitIdfsBest ==
    /\ adjacency_matrix \in Dags(BestNodes, 0..MaxCost)
    /\ node_start = 0
    /\ goal \in SUBSET (0..BestNodes-1)
    /\ alg = "IterativeDepthFirstSearch"
    /\ heuristic \in {h \in [0..BestNodes-1 -> 0..MaxH] : Admissible(h)}
    /\ timeout_arg = None
    /\ soft_timeout_arg = None
    /\ Constructed

\* An empty BestFirstSearch frontier of a new engine, with any heuristic;
\* the states pushed are over the nodes of the problem.
InitFrontier ==
    /\ adjacency_matrix \in Graphs(NumNodes, 0, {1})
    /\ node_start = 0
    /\ goal = {}
    /\ alg = "BestFirstSearch"
    /\ heuristic \in [0..NumNodes-1 -> 0..MaxH]
    /\ timeout_arg = None
    /\ soft_timeout_arg = None
    /\ pc = "frontier"
    /\ queue = <<>> /\ seen = {} /\ value_states_dict = <<>>
    /\ now = 0 /\ outcome = "running" /\ returned = NoState
    /\ best_solution = NoState
    /\ best_value = [wrapped |-> FALSE, value |-> Inf]
    /\ current_state = NoState /\ run_start = 0 /\ run_timeout = Inf
    /\ popped = <<>> /\ branched = <<>> /\ found = <<>> /\ late = "never"
    /\ probes = <<>>
    /\ completed_calls = 0 /\ first_result = NoResult /\ contents = <<>>
    /\ lhs = Scalar(0) /\ rhs = Scalar(0) /\ verdict = NoVerdict

\* One engine instance, BestFirstSearch or IterativeDepthFirstSearch with
\* the zero heuristic, on a unit-cost graph; no timeout.
InitRepeat ==
    /\ adjacency_matrix \in Graphs(NumNodes, NumEdges, {1})
    /\ node_start = 0
    /\ goal \in SUBSET (0..NumNodes-1)
    /\ alg \in {"BestFirstSearch", "IterativeDepthFirstSearch"}
    /\ heuristic = [n \in 0..NumNodes-1 |-> 0]
    /\ timeout_arg = None
    /\ soft_timeout_arg = None
    /\ Constructed

\* IterativeDepthFirstSearch with the zero heuristic on every unit-cost
\* graph, cycles included, any goal set, no timeout and no soft timeout.
InitIdfsUntimed ==
    /\ adjacency_matrix \in Graphs(NumNodes, NumEdges, {1})
    /\ node_start = 0
    /\ goal \in SUBSET (0..NumNodes-1)
    /\ alg = "IterativeDepthFirstSearch"
    /\ heuristic = [n \in 0..NumNodes-1 |-> 0]
    /\ timeout_arg = None
    /\ soft_timeout_arg = None
    /\ Constructed

\* Two wrapped values of the same kind: scalars, or tuples of one to
\* MaxArity components.
Tuples(n) == [1..n -> 0..MaxComponent]

InitValue ==
    /\ adjacency_matrix \in Graphs(1, 0, {1})
    /\ node_start = 0
    /\ goal = {}
    /\ alg = "BestFirstSearch"
    /\ heuristic = [n \in 0..0 |-> 0]
    /\ timeout_arg = None
    /\ soft_timeout_arg = None
    /\ \E is_tuple \in BOOLEAN :
          /\ lhs \in IF is_tuple
                     THEN {Tuple(xs) : xs \in UNION {Tuples(n) : n \in 1..MaxArity}}
                     ELSE {Scalar(x) : x \in 0..MaxComponent}
          /\ rhs \in IF is_tuple
                     THEN {Tuple(xs) : xs \in UNION {Tuples(n) : n \in 1..MaxArity}}
                     ELSE {Scalar(x) : x \in 0..MaxComponent}
    /\ verdict = NoVerdict
    /\ pc = "values"
    /\ queue = <<>> /\ seen = {} /\ value_states_dict = <<>>
    /\ now = 0 /\ outcome = "running" /\ returned = NoState
    /\ best_solution = NoState
    /\ best_value = [wrapped |-> FALSE, value |-> Inf]
    /\ current_state = NoState /\ run_start = 0 /\ run_timeout = Inf
    /\ popped = <<>> /\ branched = <<>> /\ found = <<>> /\ late = "never"
    /\ probes = <<>>
    /\ completed_calls = 0 /\ first_result = NoResult /\ contents = <<>>

NextSolve == SolveStart \/ SolveGoal \/ SolveBranch \/ SolveExhausted

NextGreedy == GreedyStart \/ GreedyWorse \/ GreedyBranch \/ GreedyExhausted

NextSearch == NextSolve \/ NextGreedy

SpecBFS == InitBFS /\ [][NextSolve]_vars

SpecSearch == InitSearch /\ [][NextSearch]_vars

SpecBest == InitBest /\ [][NextSolve]_vars

\* With a reachable goal the queue of Search.solve never empties.
NextUnique == SolveStart \/ SolveGoal \/ SolveBranch \/ NextGreedy

SpecUnique == InitUnique /\ [][NextUnique]_vars

NextTimed == NextSearch \/ SolveTimeout \/ GreedyTimeout

SpecTimed == InitTimed /\ [][NextTimed]_vars

\* solve is sequential code: a call that can take its next step takes it.
SpecUninformed ==
    InitUninformed /\ [][NextSolve]_vars /\ WF_vars(NextSolve)

\* Without timeout no clock reading ends a run or the loop.
NextIdfsUntimed ==
    \/ IdfsStart \/ IdfsRun \/ IdfsExhausted
    \/ RunGoal \/ RunDescend \/ RunDeadEnd

SpecIdfsBest == InitIdfsBest /\ [][NextIdfsUntimed]_vars

SpecFrontier == InitFrontier /\ [][FrontierPush \/ FrontierPop]_vars

SpecRepeat ==
    InitRepeat /\ [][NextSolve \/ NextIdfsUntimed \/ SolveAgain]_vars

SpecIdfsUntimed == InitIdfsUntimed /\ [][NextIdfsUntimed]_vars

SpecValue == InitValue /\ [][Compare]_vars

NextIdfs ==
    \/ IdfsStart \/ IdfsBreak \/ IdfsTimeout \/ IdfsRun \/ IdfsExhausted
    \/ RunTimeout \/ RunGoal \/ RunDescend \/ RunDeadEnd

SpecIdfs == InitIdfs /\ [][NextIdfs]_vars

-----------------------------------------------------------------------------
(* The claims.                                                             *)

\* C1: BreadthFirstSearch.solve without timeout on a unit-cost graph with a
\* reachable goal returns a goal state whose path length is the length of a
\* shortest path from the initial state to any goal.
C1_BreadthFirstShortest ==
    (pc = "done" /\ alg = "BreadthFirstSearch" /\ GoalReachable) =>
        /\ outcome = "returned"
        /\ IsSolution(returned)
        /\ PathLen(returned) = ShortestGoalLen

\* C1 witness: a goal is returned on a graph where the order of the queue
\* decides, a depth-first run of the same loop returning a longer path.
C1_Witness ==
    /\ pc = "done" /\ alg = "BreadthFirstSearch" /\ GoalReachable
    /\ outcome = "returned"
    /\ IsSolution(returned)
    /\ PathLen(SearchSolve("DepthFirstSearch", heuristic)) > PathLen(returned)

\* The identities (hashes) of the states of a sequence are pairwise distinct.
DistinctIdentities(states) ==
    \A i, j \in 1..Len(states) : i # j => Hash(states[i]) # Hash(states[j])

\* C2: within one solve call of BreadthFirstSearch, DepthFirstSearch,
\* GreedySearch or BestFirstSearch no identity is popped and branched twice.
C2_ExpandedAtMostOnce ==
    alg \in BaseAlgs \cup {"GreedySearch"} => DistinctIdentities(branched)

\* C2 witness: two states have been branched and the second one has an
\* action leading back to the identity branched first.
C2_Witness ==
    /\ alg \in BaseAlgs \cup {"GreedySearch"}
    /\ Len(branched) >= 2
    /\ adjacency_matrix[branched[2].index][branched[1].index] # NoEdge

\* C3: BestFirstSearch.solve with the zero heuristic and no timeout, on a
\* graph with non-negative costs and a reachable goal, returns a goal state
\* whose accumulated value is the least over all paths to any goal.
C3_ZeroHeuristicOptimal ==
    (/\ pc = "done" /\ alg = "BestFirstSearch"
     /\ heuristic = ZeroHeuristic /\ GoalReachable) =>
        /\ outcome = "returned"
        /\ IsSolution(returned)
        /\ returned.value = RemainingCost(node_start)

\* C4: with an admissible heuristic BestFirstSearch.solve returns a state
\* whose value is not greater than the value returned with the zero
\* heuristic on the same problem.
C4_AdmissibleNotWorse ==
    (/\ pc = "done" /\ alg = "BestFirstSearch"
     /\ Admissible(heuristic) /\ GoalReachable) =>
        /\ outcome = "returned"
        /\ ~ValueGT(returned.value,
                    SearchSolve("BestFirstSearch", ZeroHeuristic).value)

\* C5 as claimed: on a unit-cost problem with exactly one path from start
\* to goal, BreadthFirstSearch, GreedySearch and BestFirstSearch with the
\* zero heuristic all return the goal state reached by that path.
C5_AllReturnUniquePath ==
    (pc = "done" /\ UniquePath) =>
        /\ outcome = "returned"
        /\ IsSolution(returned)
        /\ IsGoalPath(returned.path)

\* C5 amended: BreadthFirstSearch and BestFirstSearch with the zero
\* heuristic return the goal state reached by the unique path;
\* GreedySearch returns the initial state, every successor being worse.
C5_UniquePathAmended ==
    (pc = "done" /\ UniquePath) =>
        /\ outcome = "returned"
        /\ alg \in {"BreadthFirstSearch", "BestFirstSearch"} =>
              IsSolution(returned) /\ IsGoalPath(returned.path)
        /\ alg = "GreedySearch" => returned = InitialState

\* C5 witness: BreadthFirstSearch has returned on the graph
\* [[0,1,0],[0,0,1],[0,0,0]] with start 0 and goal 2.
C5_Witness ==
    /\ pc = "done" /\ alg = "BreadthFirstSearch"
    /\ goal = {2}
    /\ \A i, j \in Nodes :
          (adjacency_matrix[i][j] # NoEdge) <=> (j = i + 1)
    /\ returned.path = <<0, 1, 2>>

\* C6: the state GreedySearch.solve returns is one of the states it popped
\* or the initial state, and no popped state has a smaller value.
C6_GreedyReturnsBestPopped ==
    (pc = "done" /\ alg = "GreedySearch") =>
        /\ outcome = "returned"
        /\ \/ returned = InitialState
           \/ \E i \in 1..Len(popped) : popped[i] = returned
        /\ \A i \in 1..Len(popped) : returned.value <= popped[i].value

\* C6 witness: GreedySearch descended to a better state, popped a worse one
\* and returned the better one, which is no solution.
C6_Witness ==
    /\ pc = "done" /\ alg = "GreedySearch"
    /\ Len(popped) >= 3
    /\ returned.value < popped[Len(popped)].value
    /\ returned # InitialState
    /\ ~IsSolution(returned)

\* The case of C7: a soft timeout smaller than the timeout in effect, and a
\* goal reachable from the initial state.
SoftBelowTimeout ==
    /\ alg = "IterativeDepthFirstSearch"
    /\ soft_timeout_arg # None
    /\ soft_timeout_arg < EffectiveTimeout(timeout_arg)
    /\ GoalReachable

\* C7 as claimed: IterativeDepthFirstSearch.solve with soft_timeout smaller
\* than timeout and a reachable goal ends by returning a state that
\* satisfies is_solution, never by TimeoutError or by returning None.
C7_SoftTimeoutReturnsSolution ==
    (pc = "done" /\ SoftBelowTimeout) =>
        /\ outcome = "returned"
        /\ returned # NoState
        /\ IsSolution(returned)

\* C7 amended: the same, for the calls in which the timeout is not exceeded
\* before a run has found a solution.
C7_SoftTimeoutAmended ==
    (pc = "done" /\ SoftBelowTimeout /\ late # "before_solution") =>
        /\ outcome = "returned"
        /\ returned # NoState
        /\ IsSolution(returned)

\* C7 witness: solve returned a solution on the soft timeout, the timeout not
\* reached, leaving the state it popped last unexplored.
C7_Witness ==
    /\ pc = "done" /\ SoftBelowTimeout
    /\ soft_timeout_arg = 1 /\ timeout_arg = 2
    /\ late = "never"
    /\ now = 2
    /\ Len(popped) = 2 /\ Len(branched) = 1
    /\ outcome = "returned" /\ IsSolution(returned)

\* C8: when IterativeDepthFirstSearch.solve ends after a clock reading over
\* the timeout and no run has found a solution, it ends by TimeoutError, not
\* by returning None or a state.
C8_TimeoutBeforeSolutionRaises ==
    (/\ pc = "done"
     /\ alg = "IterativeDepthFirstSearch"
     /\ late = "before_solution"
     /\ best_solution = NoState) =>
        outcome = "raised"

\* C9: once a run of IterativeDepthFirstSearch.solve has found a solution,
\* the call does not end by TimeoutError: it returns best_solution, a state
\* that satisfies is_solution.
C9_SolutionSuppressesTimeout ==
    (/\ pc = "done"
     /\ alg = "IterativeDepthFirstSearch"
     /\ best_solution # NoState) =>
        /\ outcome = "returned"
        /\ returned = best_solution
        /\ IsSolution(returned)

\* The clock reading of this step exceeds the timeout solve was given, at
\* the top of a loop iteration with a non-empty frontier.
TimeoutExceededAtTop(timeouts) ==
    /\ pc = "loop"
    /\ Len(queue) > 0
    /\ timeout_arg \in timeouts
    /\ now' > timeout_arg

\* C10 as claimed: for each of the four strategies, an iteration that starts
\* with a non-empty frontier and the elapsed time over the given timeout
\* ends solve with TimeoutError and no state.
C10_TimeoutRaises ==
    [][(alg \in BaseAlgs \cup {"GreedySearch"}
        /\ TimeoutExceededAtTop(0..MaxTime)) =>
            (outcome' = "raised" /\ returned' = NoState)]_vars

\* C10 amended: with a timeout that is not zero, such an iteration ends solve
\* with TimeoutError and no state for BreadthFirstSearch, DepthFirstSearch
\* and BestFirstSearch, while GreedySearch leaves its loop and returns its
\* best state so far (a timeout of zero counts as no timeout).
C10_TimeoutAmended ==
    [][TimeoutExceededAtTop(1..MaxTime) =>
            /\ alg \in BaseAlgs =>
                  (outcome' = "raised" /\ returned' = NoState)
            /\ alg = "GreedySearch" =>
                  (outcome' = "returned" /\ returned' = best_solution)]_vars

\* C10 witness: BestFirstSearch raised TimeoutError in a later iteration,
\* states still queued.
C10_Witness ==
    /\ alg = "BestFirstSearch"
    /\ outcome = "raised"
    /\ Len(branched) >= 1
    /\ Len(queue) > 0

\* C11: BreadthFirstSearch.solve and DepthFirstSearch.solve without timeout
\* terminate on every finite graph; they return a state that satisfies
\* is_solution when a goal is reachable from the initial state, and None
\* exactly when none is.
C11_UninformedTerminates ==
    <>(/\ pc = "done"
       /\ outcome = "returned"
       /\ GoalReachable => IsSolution(returned)
       /\ (returned = NoState) <=> ~GoalReachable)

\* C11 witness: DepthFirstSearch ended on a graph with a cycle through the
\* initial state, having branched two states, with no goal reachable.
C11_Witness ==
    /\ pc = "done" /\ alg = "DepthFirstSearch"
    /\ adjacency_matrix[0][1] # NoEdge /\ adjacency_matrix[1][0] # NoEdge
    /\ goal # {} /\ ~GoalReachable
    /\ Len(branched) = 2
    /\ returned = NoState

\* The product order on two tuples of equal arity: no component greater,
\* one smaller.
ProductLess(a, b) ==
    /\ \A i \in 1..Len(a) : a[i] <= b[i]
    /\ \E i \in 1..Len(a) : a[i] < b[i]

\* C12: for tuple values a, b of equal arity, a < b is the strict product
\* order; a < b and b < a never both hold; and when neither holds and
\* a # b, both a < b and a > b are false.
C12_ProductOrder ==
    (/\ verdict.done
     /\ lhs.is_tuple /\ rhs.is_tuple
     /\ Len(lhs.value) = Len(rhs.value)) =>
        /\ verdict.lt <=> ProductLess(lhs.value, rhs.value)
        /\ ~(verdict.lt /\ ValueWrapperLt(rhs, lhs))
        /\ (/\ ~ProductLess(lhs.value, rhs.value)
            /\ ~ProductLess(rhs.value, lhs.value)
            /\ lhs.value # rhs.value) => (~verdict.lt /\ ~verdict.gt)

\* C12 witness: the incomparable tuples (0, 1) and (1, 0) were compared.
C12_Witness ==
    /\ verdict.done
    /\ lhs = Tuple(<<0, 1>>) /\ rhs = Tuple(<<1, 0>>)
    /\ ~verdict.lt /\ ~verdict.gt

\* C13: for scalar values a and b, a <= b holds exactly when a < b or
\* a == b, and a >= b exactly when a > b or a == b.
C13_LeGeReflexiveClosures ==
    (verdict.done /\ ~lhs.is_tuple /\ ~rhs.is_tuple) =>
        /\ verdict.le <=> (verdict.lt \/ verdict.eq)
        /\ verdict.ge <=> (verdict.gt \/ verdict.eq)

\* C14: IterativeDepthFirstSearch.solve with no timeout and an admissible
\* heuristic, on an acyclic graph with non-negative costs and a reachable
\* goal, returns a goal state whose accumulated value is the least over all
\* paths to any goal.
C14_IdfsOptimal ==
    (/\ pc = "done" /\ alg = "IterativeDepthFirstSearch"
     /\ timeout_arg = None /\ soft_timeout_arg = None
     /\ Admissible(heuristic) /\ GoalReachable) =>
        /\ outcome = "returned"
        /\ IsSolution(returned)
        /\ returned.value = RemainingCost(node_start)

\* C15: in IterativeDepthFirstSearch.solve, an iteration that pops a key f
\* not below the value of the incumbent ends the loop at once: solve returns
\* the incumbent and starts no run from that state.
C15_PruneAtIncumbent ==
    [][(/\ pc = "loop" /\ alg = "IterativeDepthFirstSearch"
        /\ Len(queue) > 0
        /\ best_solution # NoState
        /\ queue[1] >= best_value.value) =>
            (/\ pc' = "done"
             /\ outcome' = "returned"
             /\ returned' = best_solution)]_vars

\* The key f = g + h of a state.
KeyOf(state) == state.value + heuristic[state.index]

\* The successors of the state a run stands at that are not seen.
UnseenSuccessors ==
    LET branched_states == Branch(current_state)
    IN  {branched_states[i] : i \in {j \in 1..Len(branched_states) :
                                        IsNew(branched_states[j], seen)}}

\* C16: a step of a run that has unseen successors continues into the one
\* of lowest f = g + h and pushes every other one onto the queue under its
\* f, marking it seen.
C16_DescendIntoLowestKey ==
    [][(pc = "run" /\ pc' = "run") =>
          /\ current_state' \in UnseenSuccessors
          /\ \A other \in UnseenSuccessors :
                /\ KeyOf(current_state') <= KeyOf(other)
                /\ other # current_state' =>
                      /\ Hash(other) \in seen'
                      /\ KeyOf(other) \in DOMAIN value_states_dict'
                      /\ \E i \in 1..Len(value_states_dict'[KeyOf(other)]) :
                            value_states_dict'[KeyOf(other)][i] = other]_vars

\* The incumbent of IterativeDepthFirstSearch.solve is none, or a solution
\* whose value is best_value and is the least among the solutions found.
IncumbentIsBestFound ==
    /\ (best_solution = NoState) <=> (found = <<>>)
    /\ best_solution # NoState =>
          /\ IsSolution(best_solution)
          /\ best_value = Wrapped(best_solution.value)
          /\ \E i \in 1..Len(found) : found[i] = best_solution
          /\ \A i \in 1..Len(found) : best_solution.value <= found[i].value
    /\ (pc = "done" /\ outcome = "returned") => returned = best_solution

\* A step replaces the incumbent only by the run result just found, of
\* strictly smaller value unless there was no incumbent.
IncumbentStep ==
    /\ best_value'.value <= best_value.value
    /\ best_solution' # best_solution =>
          /\ found' # found
          /\ best_solution' = found'[Len(found')]
          /\ \/ best_solution = NoState
             \/ best_solution'.value < best_solution.value

\* C17: throughout IterativeDepthFirstSearch.solve the incumbent only
\* improves: it is none or a solution of value best_value, it is replaced
\* only by a run result of strictly smaller value (or when there is none),
\* best_value never increases, and the state returned has the least value
\* among the solutions the runs found.
C17_IncumbentOnlyImproves ==
    /\ [](alg = "IterativeDepthFirstSearch" => IncumbentIsBestFound)
    /\ [][alg = "IterativeDepthFirstSearch" => IncumbentStep]_vars

\* C17 witness: solve returned after a later run improved on the solution
\* of an earlier one.
C17_Witness ==
    /\ pc = "done" /\ alg = "IterativeDepthFirstSearch"
    /\ Len(found) >= 2
    /\ found[1].value > found[Len(found)].value
    /\ returned = found[Len(found)]

\* The key-to-stack map holds exactly the keys of the heap, each once, each
\* with a non-empty stack, and the stacks hold exactly the states held.
MapMatchesHeap ==
    /\ DOMAIN value_states_dict = {queue[i] : i \in 1..Len(queue)}
    /\ \A i, j \in 1..Len(queue) : queue[i] = queue[j] => i = j
    /\ \A f \in DOMAIN value_states_dict :
          /\ Len(value_states_dict[f]) > 0
          /\ \A i \in 1..Len(value_states_dict[f]) :
                \E j \in 1..Len(contents) :
                    contents[j] = [key |-> f, state |-> value_states_dict[f][i]]
    /\ \A j \in 1..Len(contents) :
          /\ contents[j].key \in DOMAIN value_states_dict
          /\ \E i \in 1..Len(value_states_dict[contents[j].key]) :
                value_states_dict[contents[j].key][i] = contents[j].state

\* A pop step returns a state of least key among the states held and,
\* among those of that key, the one pushed last.
PopsLeastKeyLastPushed ==
    Len(popped') > Len(popped) =>
        \E i \in 1..Len(contents) :
            /\ contents[i].state = popped'[Len(popped')]
            /\ \A j \in 1..Len(contents) :
                  /\ contents[i].key <= contents[j].key
                  /\ contents[j].key = contents[i].key => j <= i

\* C18: after any sequence of BestFirstSearch push and pop calls on one
\* frontier, pop returns a state of minimal key f = g + h and, among the
\* states of that key, the most recently pushed; the key-to-stack map holds
\* exactly the keys in the heap, each with a non-empty stack.
C18_FrontierOrder ==
    /\ [](pc = "frontier" => MapMatchesHeap)
    /\ [][pc = "frontier" => PopsLeastKeyLastPushed]_vars

\* C18 witness: a pop returned one of two states that shared the least key,
\* the other one and an older state of a greater key staying in the frontier.
C18_Witness ==
    /\ pc = "frontier"
    /\ Len(popped) = 1 /\ Len(contents) = 2
    /\ contents[1].key > contents[2].key
    /\ popped[1].index # contents[2].state.index
    /\ popped[1].value + heuristic[popped[1].index] = contents[2].key

\* An iteration of solve is about to pop a state that satisfies is_solution.
PopsSolution ==
    /\ pc = "loop"
    /\ Len(queue) > 0
    /\ IsSolution(Pop(alg, Frontier).state)

\* The call returns the state the iteration pops, without branching it.
ReturnsPopped ==
    /\ pc' = "done"
    /\ outcome' = "returned"
    /\ returned' = Pop(alg, Frontier).state
    /\ branched' = branched

\* C19 as claimed: in GreedySearch.solve, as in BreadthFirstSearch,
\* DepthFirstSearch and BestFirstSearch, an iteration that pops a state
\* satisfying is_solution returns that state at once, without branching it.
C19_GoalReturnedAtOnce ==
    [][(alg \in BaseAlgs \cup {"GreedySearch"} /\ PopsSolution) =>
            ReturnsPopped]_vars

\* C19 amended: BreadthFirstSearch, DepthFirstSearch and BestFirstSearch
\* return a popped solution at once; GreedySearch makes no goal test: it
\* branches the popped state when its value is not greater than the best
\* value so far, and otherwise returns its best state so far.
C19_GoalReturnedAmended ==
    [][PopsSolution =>
          /\ alg \in BaseAlgs => ReturnsPopped
          /\ alg = "GreedySearch" =>
                IF Pop(alg, Frontier).state.value > best_value.value
                THEN /\ pc' = "done"
                     /\ returned' = best_solution
                     /\ branched' = branched
                ELSE /\ pc' = "loop"
                     /\ branched' = Append(branched, Pop(alg, Frontier).state)]_vars

\* C19 witness: GreedySearch branched a state satisfying is_solution and
\* returned a later state of lower value that does not satisfy it.
C19_Witness ==
    /\ pc = "done" /\ alg = "GreedySearch"
    /\ \E i \in 1..Len(branched) : IsSolution(branched[i])
    /\ ~IsSolution(returned)
    /\ returned.value < 0

\* C20: a second solve call on the same BestFirstSearch or
\* IterativeDepthFirstSearch instance, with the same problem, ends as the
\* first call did: the frontier of the first call, its key-to-stack map
\* included, does not reach into the second.
C20_SecondCallSameResult ==
    (/\ pc = "done"
     /\ completed_calls = 1
     /\ alg \in {"BestFirstSearch", "IterativeDepthFirstSearch"}) =>
        [outcome |-> outcome, returned |-> returned] = first_result

\* C21: IterativeDepthFirstSearch.solve with no timeout terminates on every
\* finite graph: every run ends after finitely many probe steps.  A probe
\* step without timeout is a function of the node the run stands at and of
\* the seen set (lines 312-347 read nothing else), and the seen set only
\* grows; so a run that ends never stands at a node with the seen set it had
\* at an earlier probe step of the same run at that node.
C21_RunsEnd ==
    (pc = "run" /\ timeout_arg = None /\ soft_timeout_arg = None) =>
        \A i \in 1..Len(probes) :
            probes[i] # [index |-> current_state.index, seen |-> seen]

\* The state reached from state by the actions applied in order.
RECURSIVE Replay(_, _)
Replay(state, actions) ==
    IF actions = <<>> THEN state
    ELSE Replay(Apply(Head(actions), state), Tail(actions))

\* The states the solve call holds: queued, popped, returned or kept.
StatesHeld ==
    {popped[i] : i \in 1..Len(popped)}
    \cup (IF alg \in {"BestFirstSearch", "IterativeDepthFirstSearch"}
          THEN UNION {{value_states_dict[f][i] :
                          i \in 1..Len(value_states_dict[f])} :
                      f \in DOMAIN value_states_dict}
          ELSE {queue[i] : i \in 1..Len(queue)})
    \cup ({returned, best_solution, current_state} \ {NoState})

\* The recorded history of a state produced by branching is a chain of
\* actions of the problem from the initial state that replays to the state's
\* identity, one action per branching step, and extends by one action the
\* history recorded on the branched parent, which is as it was.
HistoryExact(state) ==
    LET history == state.action_history
        n == Len(history)
    IN  /\ n = Len(state.path) - 1
        /\ n >= 1
        /\ \A i \in 1..n :
              /\ history[i].start = IF i = 1 THEN node_start
                                    ELSE history[i - 1].end
              /\ adjacency_matrix[history[i].start][history[i].end] # NoEdge
              /\ adjacency_matrix[history[i].start][history[i].end]
                    = history[i].cost
        /\ Hash(Replay(InitialState, history)) = Hash(state)
        /\ Replay(InitialState, history).path = state.path
        /\ \E i \in 1..Len(branched) :
              /\ Hash(branched[i]) = history[n].start
              /\ IF n = 1 THEN ~branched[i].has_history
                 ELSE /\ branched[i].has_history
                      /\ branched[i].action_history = SubSeq(history, 1, n - 1)

\* C22: every state produced by branching in a solve call started from an
\* initial state without history carries as its action history the exact
\* sequence of actions that leads from the initial state to it, as long as
\* the number of branching steps, the parent's history unchanged.
C22_ActionHistoryExact ==
    /\ ~InitialState.has_history
    /\ \A state \in StatesHeld : state.has_history => HistoryExact(state)

\* C22 witness: solve returned a state two branching steps from the initial
\* state, its history the two actions taken.
C22_Witness ==
    /\ pc = "done" /\ outcome = "returned"
    /\ returned.has_history
    /\ Len(returned.action_history) = 2
    /\ returned.action_history[1].start = node_start
    /\ returned.action_history[2].end = returned.index

====
